---------------------------- MODULE Spec2Model ----------------------------
(***************************************************************************)
(* A model of the three synchronization primitives of synctools:           *)
(*   - rwlock.rs : RwLock   (spin based readers-writer lock)               *)
(*   - mcs.rs    : MCSLock  (queue lock, the node lives inside the guard)  *)
(*   - lfstack.rs: LFStack  (LL/SC based lock free stack, AArch64)         *)
(* The primitives share no state.  Each has its own variables and its own  *)
(* specification (SpecRw, SpecMCS, SpecLF); a specification leaves the     *)
(* variables of the other two primitives at their initial values.          *)
(*                                                                         *)
(* Every atomic operation of the source is one action.  A spin loop        *)
(*    while cond(load) { spin_loop() }                                     *)
(* is modelled by the load that leaves it: the loads that stay in the loop *)
(* change nothing and are stuttering steps.                                *)
(***************************************************************************)
EXTENDS Integers, Sequences, FiniteSets, Bags, TLC

(***************************************************************************)
(* Bounds of the model.                                                    *)
(***************************************************************************)
\* width of usize in the model (the program's is 64)
UsizeBits == 4
\* reader threads and writer threads of the RwLock workload
NumReaders == 2
NumWriters == 2
\* acquire/release rounds of every RwLock thread
RwIters == 1
\* read()/write() calls of the whole RwLock workload
RwCalls == 3
\* threads of the MCSLock workload and lock/increment/drop iterations of each
NumMCSThreads == 2
MCSIters == 2
\* lock() calls of the whole MCSLock workload
MCSCalls == 4
\* threads of the LFStack workload, push/pop calls of each, and of the whole workload
NumLFThreads == 2
LFOps == 3
LFCalls == 4
\* node addresses the allocator hands out (and hands out again once freed)
LFHeap == 2

(***************************************************************************)
(* The state.  RwLock (src/src/rwlock.rs):                                 *)
(***************************************************************************)
VARIABLES
    state,                \* RwLock::state
    writer_wake_counter,  \* RwLock::writer_wake_counter
    rw_data,              \* RwLock::data, the payload (an integer)
    rw_pc,                \* per thread: position in read()/write()/drop()
    rw_s,                 \* per thread: the local `s`
    rw_w,                 \* per thread: the local `w` of write()
    rw_iter,              \* per thread: rounds completed
    rw_calls,             \* read()/write() calls started so far
    rw_obs                \* per reader: the payload values it has read

rwVars == <<state, writer_wake_counter, rw_data, rw_pc, rw_s, rw_w, rw_iter, rw_calls, rw_obs>>

\* MCSLock (src/src/mcs.rs); see the MCSLock section below
VARIABLES
    moved,         \* the build copies the guard (and its node) on return
    last,          \* MCSLock::last
    mcs_data,      \* MCSLock::data, the payload (a counter)
    node_next,     \* memory: MCSNode::next of the node at an address
    node_locked,   \* memory: MCSNode::locked of the node at an address
    mcs_buf,       \* per thread: stores issued and not yet in memory
    mcs_pc,        \* per thread: position in lock()/critical section/drop()
    mcs_prev,      \* per thread: the local `prev` of lock()
    mcs_tmp,       \* per thread: the payload value read by *r += 1
    mcs_iter,      \* per thread: iterations completed
    mcs_calls,     \* lock() calls started so far
    mcs_ticket,    \* history: per thread, the rank of its last swap on `last`
    mcs_entry,     \* history: per thread, the rank of its last lock entry
    mcs_swaps,     \* history: number of swaps on `last` so far
    mcs_entries,   \* history: number of lock entries so far
    last_rel,      \* happens-before: what the Release write heading the release sequence of `last` carries
    locked_rel,    \* happens-before: what the Release store in `locked` of the node at an address carries
    mcs_pend,      \* happens-before: per thread, what its Relaxed loads have read, for its next Acquire fence
    mcs_hb         \* happens-before: per thread, k when the critical sections 1..k happen before its next step

\* what the threads know of each other's critical sections (see the MCSLock section)
hbVars == <<last_rel, locked_rel, mcs_pend, mcs_hb>>

mcsVars == <<moved, last, mcs_data, node_next, node_locked, mcs_buf, mcs_pc,
             mcs_prev, mcs_tmp, mcs_iter, mcs_calls, mcs_ticket, mcs_entry, mcs_swaps,
             mcs_entries, hbVars>>


\* LFStack (src/src/lfstack.rs); see the LFStack section below
VARIABLES
    head,          \* StackHead::head
    lf_next,       \* memory: Node::next of the node at an address
    lf_data,       \* memory: Node::data of the node at an address
    lf_alloc,      \* the addresses that hold a live Box<Node<T>>
    lf_pc,         \* per thread: position in push()/pop()
    lf_res,        \* per thread: the exclusive monitor holds its reservation of head
    lf_ptr,        \* per thread: the register {ptr} of push / {result} of pop
    lf_reg,        \* per thread: the register {next}
    lf_ret,        \* per thread: what its last pop() returned (NoValue: None)
    lf_ops,        \* per thread: calls completed
    lf_calls,      \* push()/pop() calls started so far
    lf_pushed,     \* history: the bag of values pushed (push's store to head done)
    lf_popped,     \* history: the bag of values returned by pop()
    lf_ref,        \* history: the reference stack, a sequence, top first
    lf_exp,        \* history: per thread, what the reference stack gave its last pop
    lf_hit         \* history: per thread, another thread stored to head since its load-exclusive

lfVars == <<head, lf_next, lf_data, lf_alloc, lf_pc, lf_res, lf_ptr, lf_reg, lf_ret,
            lf_ops, lf_calls, lf_pushed, lf_popped, lf_ref, lf_exp, lf_hit>>

\* an action of one primitive leaves the other primitives alone
RwFrame == UNCHANGED <<mcsVars, lfVars>>
MCSFrame == UNCHANGED <<rwVars, lfVars>>
LFFrame == UNCHANGED <<rwVars, mcsVars>>

---------------------------------------------------------------------------
(***************************************************************************)
(* RwLock (src/src/rwlock.rs)                                              *)
(***************************************************************************)
Pow2(n) == IF n = 0 THEN 1 ELSE 2 * (2 ^ (n - 1))

\* usize::MAX, the sentinel of a held write lock
UsizeMax == Pow2(UsizeBits) - 1

\* wrapping arithmetic of AtomicUsize::fetch_add / fetch_sub
WrapAdd(a, b) == (a + b) % Pow2(UsizeBits)
WrapSub(a, b) == (a - b + Pow2(UsizeBits)) % Pow2(UsizeBits)

RwReaders == 1 .. NumReaders
RwWriters == (NumReaders + 1) .. (NumReaders + NumWriters)
RwThreads == RwReaders \cup RwWriters

RwInit ==
    /\ state = 0
    /\ writer_wake_counter = 0
    /\ rw_data = 0
    /\ rw_pc = [t \in RwThreads |-> IF t \in RwReaders THEN "r_load" ELSE "w_load"]
    /\ rw_s = [t \in RwThreads |-> 0]
    /\ rw_w = [t \in RwThreads |-> 0]
    /\ rw_iter = [t \in RwThreads |-> 0]
    /\ rw_calls = 0
    /\ rw_obs = [t \in RwReaders |-> {}]

\* a faulty read(): the reader attempts its compare-exchange whatever the low bit of `s`
ReadDispatchAnyState(s) == "r_cas"

\* a faulty write(): the writer also attempts to take the lock from a state with one reader
WriteDispatchOverReader(s) ==
    IF s <= 2 THEN "w_cas_acq"
    ELSE IF s % 2 = 0 THEN "w_cas_bit"
    ELSE "w_sample"

\* read(): which branch of the loop body the value of `s` selects
ReadDispatch(s) == IF s % 2 = 0 THEN "r_cas" ELSE "r_spin"

\* write(): which branch of the loop body the value of `s` selects
WriteDispatch(s) ==
    IF s <= 1 THEN "w_cas_acq"
    ELSE IF s % 2 = 0 THEN "w_cas_bit"
    ELSE "w_sample"

\* read()/write() returns the guard: its locals `s` and `w` are gone
RwReturn(t) ==
    /\ rw_s' = [rw_s EXCEPT ![t] = 0]
    /\ rw_w' = [rw_w EXCEPT ![t] = 0]

\* the thread's loop over its rounds (the closure of the test threads)
RwAfterDrop(t) ==
    /\ rw_iter' = [rw_iter EXCEPT ![t] = @ + 1]
    /\ UNCHANGED rw_calls
    /\ rw_pc' = [rw_pc EXCEPT ![t] =
                    IF rw_iter[t] + 1 >= RwIters THEN "done"
                    ELSE IF t \in RwReaders THEN "r_load" ELSE "w_load"]

---------------------------------------------------------------------------
(* RwLock::read *)

\* read() is called;  let mut s = self.state.load(Relaxed);
\* (with the workload's calls used up the thread ends instead)
ReadLoad(t) ==
    /\ RwFrame
    /\ rw_pc[t] = "r_load"
    /\ IF rw_calls < RwCalls
       THEN /\ rw_calls' = rw_calls + 1
            /\ rw_s' = [rw_s EXCEPT ![t] = state]
            /\ rw_pc' = [rw_pc EXCEPT ![t] = ReadDispatch(state)]
       ELSE /\ rw_pc' = [rw_pc EXCEPT ![t] = "done"]
            /\ UNCHANGED <<rw_calls, rw_s>>
    /\ UNCHANGED <<state, writer_wake_counter, rw_data, rw_w, rw_iter, rw_obs>>

\* a faulty read(): the reader adds itself without comparing the state with `s`
ReadCasNoCompare(t) ==
    /\ RwFrame
    /\ rw_pc[t] = "r_cas"
    /\ state' = WrapAdd(state, 2)
    /\ rw_pc' = [rw_pc EXCEPT ![t] = "r_read"]
    /\ RwReturn(t)
    /\ UNCHANGED <<writer_wake_counter, rw_data, rw_iter, rw_calls, rw_obs>>

\* if s & 1 == 0 { compare_exchange_weak(s, s + 2): Ok => return guard, Err(e) => s = e }
\* (a spurious failure returns e = s and changes nothing: a stuttering step)
ReadCas(t) ==
    /\ RwFrame
    /\ rw_pc[t] = "r_cas"
    /\ IF state = rw_s[t]
       THEN /\ state' = WrapAdd(state, 2)
            /\ rw_pc' = [rw_pc EXCEPT ![t] = "r_read"]
            /\ RwReturn(t)
       ELSE /\ rw_s' = [rw_s EXCEPT ![t] = state]
            /\ rw_pc' = [rw_pc EXCEPT ![t] = ReadDispatch(state)]
            /\ UNCHANGED <<state, rw_w>>
    /\ UNCHANGED <<writer_wake_counter, rw_data, rw_iter, rw_calls, rw_obs>>

\* if s & 1 == 1 { while self.state.load(Relaxed) == s { spin_loop() } ...
ReadSpin(t) ==
    /\ RwFrame
    /\ rw_pc[t] = "r_spin"
    /\ state # rw_s[t]
    /\ rw_pc' = [rw_pc EXCEPT ![t] = "r_reload"]
    /\ UNCHANGED <<state, writer_wake_counter, rw_data, rw_s, rw_w, rw_iter, rw_calls, rw_obs>>

\* ... s = self.state.load(Relaxed); }
ReadReload(t) ==
    /\ RwFrame
    /\ rw_pc[t] = "r_reload"
    /\ rw_s' = [rw_s EXCEPT ![t] = state]
    /\ rw_pc' = [rw_pc EXCEPT ![t] = ReadDispatch(state)]
    /\ UNCHANGED <<state, writer_wake_counter, rw_data, rw_w, rw_iter, rw_calls, rw_obs>>

\* the reader's critical section: assert_eq!(*r, 0) reads the payload
ReadData(t) ==
    /\ RwFrame
    /\ rw_pc[t] = "r_read"
    /\ rw_obs' = [rw_obs EXCEPT ![t] = @ \cup {rw_data}]
    /\ rw_pc' = [rw_pc EXCEPT ![t] = "r_drop"]
    /\ UNCHANGED <<state, writer_wake_counter, rw_data, rw_s, rw_w, rw_iter, rw_calls>>

\* a faulty drop of a read guard: the reader count is not taken back
ReadGuardDropNoSub(t) ==
    /\ RwFrame
    /\ rw_pc[t] = "r_drop"
    /\ IF state = 3
       THEN /\ rw_pc' = [rw_pc EXCEPT ![t] = "r_bump"]
            /\ UNCHANGED <<rw_iter, rw_calls>>
       ELSE RwAfterDrop(t)
    /\ UNCHANGED <<state, writer_wake_counter, rw_data, rw_s, rw_w, rw_obs>>

\* a faulty drop of a read guard: the last reader wakes the writers whether or
\* not one is waiting
ReadGuardDropBumpOnLast(t) ==
    /\ RwFrame
    /\ rw_pc[t] = "r_drop"
    /\ state' = WrapSub(state, 2)
    /\ IF state \in {2, 3}
       THEN /\ rw_pc' = [rw_pc EXCEPT ![t] = "r_bump"]
            /\ UNCHANGED <<rw_iter, rw_calls>>
       ELSE RwAfterDrop(t)
    /\ UNCHANGED <<writer_wake_counter, rw_data, rw_s, rw_w, rw_obs>>

\* Drop for RwLockReadGuard: if self.rwlock.state.fetch_sub(2, Release) == 3 { ...
ReadGuardDrop(t) ==
    /\ RwFrame
    /\ rw_pc[t] = "r_drop"
    /\ state' = WrapSub(state, 2)
    /\ IF state = 3
       THEN /\ rw_pc' = [rw_pc EXCEPT ![t] = "r_bump"]
            /\ UNCHANGED <<rw_iter, rw_calls>>
       ELSE RwAfterDrop(t)
    /\ UNCHANGED <<writer_wake_counter, rw_data, rw_s, rw_w, rw_obs>>

\* ... self.rwlock.writer_wake_counter.fetch_add(1, Release); }
ReadGuardBump(t) ==
    /\ RwFrame
    /\ rw_pc[t] = "r_bump"
    /\ writer_wake_counter' = WrapAdd(writer_wake_counter, 1)
    /\ RwAfterDrop(t)
    /\ UNCHANGED <<state, rw_data, rw_s, rw_w, rw_obs>>

---------------------------------------------------------------------------
(* RwLock::write *)

\* write() is called;  let mut s = self.state.load(Relaxed);
\* (with the workload's calls used up the thread ends instead)
WriteLoad(t) ==
    /\ RwFrame
    /\ rw_pc[t] = "w_load"
    /\ IF rw_calls < RwCalls
       THEN /\ rw_calls' = rw_calls + 1
            /\ rw_s' = [rw_s EXCEPT ![t] = state]
            /\ rw_pc' = [rw_pc EXCEPT ![t] = WriteDispatch(state)]
       ELSE /\ rw_pc' = [rw_pc EXCEPT ![t] = "done"]
            /\ UNCHANGED <<rw_calls, rw_s>>
    /\ UNCHANGED <<state, writer_wake_counter, rw_data, rw_w, rw_iter, rw_obs>>

\* if s <= 1 { compare_exchange(s, usize::MAX): Ok => return guard, Err(e) => { s = e; continue } }
WriteCasAcquire(t) ==
    /\ RwFrame
    /\ rw_pc[t] = "w_cas_acq"
    /\ IF state = rw_s[t]
       THEN /\ state' = UsizeMax
            /\ rw_pc' = [rw_pc EXCEPT ![t] = "w_inc"]
            /\ RwReturn(t)
       ELSE /\ rw_s' = [rw_s EXCEPT ![t] = state]
            /\ rw_pc' = [rw_pc EXCEPT ![t] = WriteDispatch(state)]
            /\ UNCHANGED <<state, rw_w>>
    /\ UNCHANGED <<writer_wake_counter, rw_data, rw_iter, rw_calls, rw_obs>>

\* if s & 1 == 0 { compare_exchange(s, s + 1): Ok => (), Err(e) => { s = e; continue } }
WriteCasWaitBit(t) ==
    /\ RwFrame
    /\ rw_pc[t] = "w_cas_bit"
    /\ IF state = rw_s[t]
       THEN /\ state' = WrapAdd(state, 1)
            /\ rw_pc' = [rw_pc EXCEPT ![t] = "w_sample"]
            /\ UNCHANGED rw_s
       ELSE /\ rw_s' = [rw_s EXCEPT ![t] = state]
            /\ rw_pc' = [rw_pc EXCEPT ![t] = WriteDispatch(state)]
            /\ UNCHANGED state
    /\ UNCHANGED <<writer_wake_counter, rw_data, rw_w, rw_iter, rw_calls, rw_obs>>

\* let w = self.writer_wake_counter.load(Acquire);
WriteSample(t) ==
    /\ RwFrame
    /\ rw_pc[t] = "w_sample"
    /\ rw_w' = [rw_w EXCEPT ![t] = writer_wake_counter]
    /\ rw_pc' = [rw_pc EXCEPT ![t] = "w_reload"]
    /\ UNCHANGED <<state, writer_wake_counter, rw_data, rw_s, rw_iter, rw_calls, rw_obs>>

\* s = self.state.load(Relaxed); if s >= 2 { spin ... } (else: next round of the loop)
WriteReload(t) ==
    /\ RwFrame
    /\ rw_pc[t] = "w_reload"
    /\ rw_s' = [rw_s EXCEPT ![t] = state]
    /\ rw_pc' = [rw_pc EXCEPT ![t] = IF state >= 2 THEN "w_spin" ELSE WriteDispatch(state)]
    /\ UNCHANGED <<state, writer_wake_counter, rw_data, rw_w, rw_iter, rw_calls, rw_obs>>

\* while self.writer_wake_counter.load(Acquire) == w { spin_loop() }
WriteSpin(t) ==
    /\ RwFrame
    /\ rw_pc[t] = "w_spin"
    /\ writer_wake_counter # rw_w[t]
    /\ rw_pc' = [rw_pc EXCEPT ![t] = "w_respin_load"]
    /\ UNCHANGED <<state, writer_wake_counter, rw_data, rw_s, rw_w, rw_iter, rw_calls, rw_obs>>

\* s = self.state.load(Relaxed);   (the load that follows the spin)
WriteSpinReload(t) ==
    /\ RwFrame
    /\ rw_pc[t] = "w_respin_load"
    /\ rw_s' = [rw_s EXCEPT ![t] = state]
    /\ rw_pc' = [rw_pc EXCEPT ![t] = WriteDispatch(state)]
    /\ UNCHANGED <<state, writer_wake_counter, rw_data, rw_w, rw_iter, rw_calls, rw_obs>>

\* the writer's critical section: *r += 1;
WriteInc(t) ==
    /\ RwFrame
    /\ rw_pc[t] = "w_inc"
    /\ rw_data' = rw_data + 1
    /\ rw_pc' = [rw_pc EXCEPT ![t] = "w_dec"]
    /\ UNCHANGED <<state, writer_wake_counter, rw_s, rw_w, rw_iter, rw_calls, rw_obs>>

\* *r -= 1;
WriteDec(t) ==
    /\ RwFrame
    /\ rw_pc[t] = "w_dec"
    /\ rw_data' = rw_data - 1
    /\ rw_pc' = [rw_pc EXCEPT ![t] = "w_drop"]
    /\ UNCHANGED <<state, writer_wake_counter, rw_s, rw_w, rw_iter, rw_calls, rw_obs>>

\* Drop for RwLockWriteGuard: self.rwlock.state.store(0, Release);
WriteGuardDrop(t) ==
    /\ RwFrame
    /\ rw_pc[t] = "w_drop"
    /\ state' = 0
    /\ rw_pc' = [rw_pc EXCEPT ![t] = "w_bump"]
    /\ UNCHANGED <<writer_wake_counter, rw_data, rw_s, rw_w, rw_iter, rw_calls, rw_obs>>

\* self.rwlock.writer_wake_counter.fetch_add(1, Release);
WriteGuardBump(t) ==
    /\ RwFrame
    /\ rw_pc[t] = "w_bump"
    /\ writer_wake_counter' = WrapAdd(writer_wake_counter, 1)
    /\ RwAfterDrop(t)
    /\ UNCHANGED <<state, rw_data, rw_s, rw_w, rw_obs>>

RwReaderStep(t) ==
    \/ ReadLoad(t)
    \/ ReadCas(t)
    \/ ReadSpin(t)
    \/ ReadReload(t)
    \/ ReadData(t)
    \/ ReadGuardDrop(t)
    \/ ReadGuardBump(t)

RwWriterStep(t) ==
    \/ WriteLoad(t)
    \/ WriteCasAcquire(t)
    \/ WriteCasWaitBit(t)
    \/ WriteSample(t)
    \/ WriteReload(t)
    \/ WriteSpin(t)
    \/ WriteSpinReload(t)
    \/ WriteInc(t)
    \/ WriteDec(t)
    \/ WriteGuardDrop(t)
    \/ WriteGuardBump(t)

RwNext ==
    \/ \E t \in RwReaders : RwReaderStep(t)
    \/ \E t \in RwWriters : RwWriterStep(t)

---------------------------------------------------------------------------
(***************************************************************************)
(* MCSLock (src/src/mcs.rs)                                                *)
(*                                                                         *)
(* lock() builds the guard, which contains the queue node, as a local,     *)
(* publishes the address of that local's node in `last`, and then returns  *)
(* the guard by value.  Whether the returned guard keeps the address of    *)
(* the local (the local is built in the caller's return slot) or is copied *)
(* to another address is decided by the build; nothing in the source pins  *)
(* it (PinnedNode is a plain field, no Pin<&mut _> is ever formed).  The   *)
(* model takes either outcome: `moved` is chosen in the initial state.     *)
(* After a copy the published address denotes the dead local of lock();    *)
(* stores through it hit that stack slot, which the thread's next call of  *)
(* lock() uses again.                                                      *)
(*                                                                         *)
(* The stores of lock() (the node's initialisation, locked = true, and     *)
(* prev.next = ptr) are plain or Relaxed stores and the swap on `last` is  *)
(* Relaxed: nothing orders them with respect to each other for another     *)
(* thread.  Each thread has a store buffer; a buffered store is committed  *)
(* to memory by Flush, in any order that keeps the program order of the    *)
(* stores to one location.  A thread's own loads see its buffered stores.  *)
(* A Release operation takes effect only with the buffer empty.            *)
(***************************************************************************)
\* null_mut()
Null == 0

MCSThreads == 1 .. NumMCSThreads

\* the address of guard.pinned_node.pinned inside lock() (mcs.rs line 59)
PubAddr(t) == t

\* the address of self.pinned_node.pinned inside drop() (mcs.rs line 111)
DropAddr(t) == IF moved THEN NumMCSThreads + t ELSE PubAddr(t)

MCSAddrs == 1 .. (2 * NumMCSThreads)

MCSInit ==
    /\ moved \in BOOLEAN
    /\ last = Null
    /\ mcs_data = 0
    /\ node_next = [a \in MCSAddrs |-> Null]
    /\ node_locked = [a \in MCSAddrs |-> FALSE]
    /\ mcs_buf = [t \in MCSThreads |-> <<>>]
    /\ mcs_pc = [t \in MCSThreads |-> "lock_new"]
    /\ mcs_prev = [t \in MCSThreads |-> Null]
    /\ mcs_tmp = [t \in MCSThreads |-> 0]
    /\ mcs_iter = [t \in MCSThreads |-> 0]
    /\ mcs_calls = 0
    /\ mcs_ticket = [t \in MCSThreads |-> 0]
    /\ mcs_entry = [t \in MCSThreads |-> 0]
    /\ mcs_swaps = 0
    /\ mcs_entries = 0
    /\ last_rel = 0
    /\ locked_rel = [a \in MCSAddrs |-> 0]
    /\ mcs_pend = [t \in MCSThreads |-> 0]
    /\ mcs_hb = [t \in MCSThreads |-> 0]

\* the value thread t reads from field f of the node at a: its own latest
\* buffered store to it if there is one, memory otherwise
RECURSIVE Forwarded(_, _, _, _)
Forwarded(buf, a, f, mem) ==
    IF buf = <<>> THEN mem
    ELSE LET e == buf[Len(buf)]
         IN  IF e.addr = a /\ e.field = f THEN e.val
             ELSE Forwarded(SubSeq(buf, 1, Len(buf) - 1), a, f, mem)

LoadNext(t, a) == Forwarded(mcs_buf[t], a, "next", node_next[a])
LoadLocked(t, a) == Forwarded(mcs_buf[t], a, "locked", node_locked[a])

\* a plain or Relaxed store: it enters the thread's store buffer
Issue(t, stores) == mcs_buf' = [mcs_buf EXCEPT ![t] = @ \o stores]

RemoveAt(s, i) == SubSeq(s, 1, i - 1) \o SubSeq(s, i + 1, Len(s))

\* a buffered store reaches memory; stores to one location keep their order
Flush(t) ==
    \E i \in 1 .. Len(mcs_buf[t]) :
        LET e == mcs_buf[t][i] IN
        /\ MCSFrame
        /\ \A j \in 1 .. (i - 1) :
              ~(mcs_buf[t][j].addr = e.addr /\ mcs_buf[t][j].field = e.field)
        /\ IF e.field = "next"
           THEN /\ node_next' = [node_next EXCEPT ![e.addr] = e.val]
                /\ UNCHANGED <<node_locked, locked_rel>>
           ELSE /\ node_locked' = [node_locked EXCEPT ![e.addr] = e.val]
                /\ locked_rel' = [locked_rel EXCEPT ![e.addr] = 0]
                /\ UNCHANGED node_next
        /\ UNCHANGED <<last_rel, mcs_pend, mcs_hb>>
        /\ mcs_buf' = [mcs_buf EXCEPT ![t] = RemoveAt(@, i)]
        /\ UNCHANGED <<moved, last, mcs_data, mcs_pc, mcs_prev, mcs_tmp, mcs_iter, mcs_calls,
                       mcs_ticket, mcs_entry, mcs_swaps, mcs_entries>>

Max(a, b) == IF a >= b THEN a ELSE b

\* thread t has a store to `locked` of the node at a in its buffer: its load
\* of `locked` reads that store, not memory
BuffersLocked(t, a) ==
    \E i \in 1 .. Len(mcs_buf[t]) : mcs_buf[t][i].addr = a /\ mcs_buf[t][i].field = "locked"

\* the thread enters the lock: it is the next holder
MCSEnter(t) ==
    /\ mcs_entries' = mcs_entries + 1
    /\ mcs_entry' = [mcs_entry EXCEPT ![t] = mcs_entries + 1]

\* lock() is called (with the workload's calls used up the thread ends instead):
\* let pinned_node = PinnedNode::new(); let mut guard = MCSLockGuard { .. };
\* MCSNode::new(): next = null_mut(), locked = false
LockNew(t) ==
    /\ MCSFrame
    /\ UNCHANGED hbVars
    /\ mcs_pc[t] = "lock_new"
    /\ IF mcs_calls < MCSCalls
       THEN /\ mcs_calls' = mcs_calls + 1
            /\ Issue(t, << [addr |-> PubAddr(t), field |-> "next", val |-> Null],
                           [addr |-> PubAddr(t), field |-> "locked", val |-> FALSE] >>)
            /\ mcs_pc' = [mcs_pc EXCEPT ![t] = "lock_swap"]
       ELSE /\ mcs_pc' = [mcs_pc EXCEPT ![t] = "done"]
            /\ UNCHANGED <<mcs_calls, mcs_buf>>
    /\ UNCHANGED <<moved, last, mcs_data, node_next, node_locked, mcs_prev, mcs_tmp,
                   mcs_iter, mcs_ticket, mcs_entry, mcs_swaps, mcs_entries>>

\* let prev = self.last.swap(ptr, Relaxed); if !prev.is_null() { .. }
LockSwap(t) ==
    /\ MCSFrame
    /\ mcs_pend' = [mcs_pend EXCEPT ![t] = Max(@, last_rel)]
    /\ UNCHANGED <<last_rel, locked_rel, mcs_hb>>
    /\ mcs_pc[t] = "lock_swap"
    /\ mcs_prev' = [mcs_prev EXCEPT ![t] = last]
    /\ last' = PubAddr(t)
    /\ mcs_swaps' = mcs_swaps + 1
    /\ mcs_ticket' = [mcs_ticket EXCEPT ![t] = mcs_swaps + 1]
    /\ IF last = Null
       THEN /\ MCSEnter(t)
            /\ mcs_pc' = [mcs_pc EXCEPT ![t] = "lock_return"]
       ELSE /\ UNCHANGED <<mcs_entry, mcs_entries>>
            /\ mcs_pc' = [mcs_pc EXCEPT ![t] = "lock_set_locked"]
    /\ UNCHANGED <<moved, mcs_data, node_next, node_locked, mcs_buf, mcs_tmp, mcs_iter, mcs_calls>>

\* guard.pinned_node.pinned.locked.store(true, Relaxed);
LockSetLocked(t) ==
    /\ MCSFrame
    /\ UNCHANGED hbVars
    /\ mcs_pc[t] = "lock_set_locked"
    /\ Issue(t, << [addr |-> PubAddr(t), field |-> "locked", val |-> TRUE] >>)
    /\ mcs_pc' = [mcs_pc EXCEPT ![t] = "lock_enqueue"]
    /\ UNCHANGED <<moved, last, mcs_data, node_next, node_locked, mcs_prev, mcs_tmp,
                   mcs_iter, mcs_calls, mcs_ticket, mcs_entry, mcs_swaps, mcs_entries>>

\* prev.next.store(ptr, Relaxed);
LockEnqueue(t) ==
    /\ MCSFrame
    /\ UNCHANGED hbVars
    /\ mcs_pc[t] = "lock_enqueue"
    /\ Issue(t, << [addr |-> mcs_prev[t], field |-> "next", val |-> PubAddr(t)] >>)
    /\ mcs_pc' = [mcs_pc EXCEPT ![t] = "lock_spin"]
    /\ UNCHANGED <<moved, last, mcs_data, node_next, node_locked, mcs_prev, mcs_tmp,
                   mcs_iter, mcs_calls, mcs_ticket, mcs_entry, mcs_swaps, mcs_entries>>

\* a faulty lock(): the waiter does not wait for its `locked` flag to be cleared
LockSpinNoWait(t) ==
    /\ MCSFrame
    /\ mcs_pend' = [mcs_pend EXCEPT ![t] = IF BuffersLocked(t, PubAddr(t)) THEN @ ELSE Max(@, locked_rel[PubAddr(t)])]
    /\ UNCHANGED <<last_rel, locked_rel, mcs_hb>>
    /\ mcs_pc[t] = "lock_spin"
    /\ MCSEnter(t)
    /\ mcs_pc' = [mcs_pc EXCEPT ![t] = "lock_return"]
    /\ UNCHANGED <<moved, last, mcs_data, node_next, node_locked, mcs_buf, mcs_prev,
                   mcs_tmp, mcs_iter, mcs_calls, mcs_ticket, mcs_swaps>>

\* while guard.pinned_node.pinned.locked.load(Relaxed) { spin_loop() }
LockSpin(t) ==
    /\ MCSFrame
    /\ mcs_pend' = [mcs_pend EXCEPT ![t] = IF BuffersLocked(t, PubAddr(t)) THEN @ ELSE Max(@, locked_rel[PubAddr(t)])]
    /\ UNCHANGED <<last_rel, locked_rel, mcs_hb>>
    /\ mcs_pc[t] = "lock_spin"
    /\ LoadLocked(t, PubAddr(t)) = FALSE
    /\ MCSEnter(t)
    /\ mcs_pc' = [mcs_pc EXCEPT ![t] = "lock_return"]
    /\ UNCHANGED <<moved, last, mcs_data, node_next, node_locked, mcs_buf, mcs_prev,
                   mcs_tmp, mcs_iter, mcs_calls, mcs_ticket, mcs_swaps>>

\* a faulty lock(): no Acquire fence before the guard is returned
LockReturnNoFence(t) ==
    /\ MCSFrame
    /\ mcs_pend' = [mcs_pend EXCEPT ![t] = 0]
    /\ UNCHANGED <<last_rel, locked_rel, mcs_hb>>
    /\ mcs_pc[t] = "lock_return"
    /\ node_next' = [node_next EXCEPT ![DropAddr(t)] = LoadNext(t, PubAddr(t))]
    /\ node_locked' = [node_locked EXCEPT ![DropAddr(t)] = LoadLocked(t, PubAddr(t))]
    /\ mcs_pc' = [mcs_pc EXCEPT ![t] = "cs_read"]
    /\ UNCHANGED <<moved, last, mcs_data, mcs_buf, mcs_prev, mcs_tmp, mcs_iter, mcs_calls,
                   mcs_ticket, mcs_entry, mcs_swaps, mcs_entries>>

\* fence(Acquire); guard      (the guard is returned by value: when the build
\* copies it, the node at DropAddr is the thread's view of the node it built)
LockReturn(t) ==
    /\ MCSFrame
    /\ mcs_hb' = [mcs_hb EXCEPT ![t] = Max(@, mcs_pend[t])]
    /\ mcs_pend' = [mcs_pend EXCEPT ![t] = 0]
    /\ UNCHANGED <<last_rel, locked_rel>>
    /\ mcs_pc[t] = "lock_return"
    /\ node_next' = [node_next EXCEPT ![DropAddr(t)] = LoadNext(t, PubAddr(t))]
    /\ node_locked' = [node_locked EXCEPT ![DropAddr(t)] = LoadLocked(t, PubAddr(t))]
    /\ mcs_pc' = [mcs_pc EXCEPT ![t] = "cs_read"]
    /\ UNCHANGED <<moved, last, mcs_data, mcs_buf, mcs_prev, mcs_tmp, mcs_iter, mcs_calls,
                   mcs_ticket, mcs_entry, mcs_swaps, mcs_entries>>

\* the critical section, *r += 1: the read of the payload through the guard
CsRead(t) ==
    /\ MCSFrame
    /\ UNCHANGED hbVars
    /\ mcs_pc[t] = "cs_read"
    /\ mcs_tmp' = [mcs_tmp EXCEPT ![t] = mcs_data]
    /\ mcs_pc' = [mcs_pc EXCEPT ![t] = "cs_write"]
    /\ UNCHANGED <<moved, last, mcs_data, node_next, node_locked, mcs_buf, mcs_prev,
                   mcs_iter, mcs_calls, mcs_ticket, mcs_entry, mcs_swaps, mcs_entries>>

\* the critical section, *r += 1: the write of the payload through the guard
CsWrite(t) ==
    /\ MCSFrame
    /\ mcs_hb' = [mcs_hb EXCEPT ![t] = IF @ + 1 = mcs_entry[t] THEN mcs_entry[t] ELSE @]
    /\ UNCHANGED <<last_rel, locked_rel, mcs_pend>>
    /\ mcs_pc[t] = "cs_write"
    /\ mcs_data' = mcs_tmp[t] + 1
    /\ mcs_tmp' = [mcs_tmp EXCEPT ![t] = 0]
    /\ mcs_pc' = [mcs_pc EXCEPT ![t] = "drop_load"]
    /\ UNCHANGED <<moved, last, node_next, node_locked, mcs_buf, mcs_prev,
                   mcs_iter, mcs_calls, mcs_ticket, mcs_entry, mcs_swaps, mcs_entries>>

\* the thread's loop: for _ in 0..num_iterations { lock; increment; drop }
MCSAfterDrop(t) ==
    /\ mcs_iter' = [mcs_iter EXCEPT ![t] = @ + 1]
    /\ mcs_ticket' = [mcs_ticket EXCEPT ![t] = 0]
    /\ mcs_entry' = [mcs_entry EXCEPT ![t] = 0]
    /\ UNCHANGED mcs_calls
    /\ mcs_hb' = [mcs_hb EXCEPT ![t] = 0]
    /\ mcs_pc' = [mcs_pc EXCEPT ![t] =
                    IF mcs_iter[t] + 1 >= MCSIters THEN "done" ELSE "lock_new"]

\* drop(): if self.pinned_node.pinned.next.load(Relaxed).is_null() { .. }
DropLoadNext(t) ==
    /\ MCSFrame
    /\ UNCHANGED hbVars
    /\ mcs_pc[t] = "drop_load"
    /\ mcs_pc' = [mcs_pc EXCEPT ![t] =
                    IF LoadNext(t, DropAddr(t)) = Null THEN "drop_cas" ELSE "drop_wait"]
    /\ UNCHANGED <<moved, last, mcs_data, node_next, node_locked, mcs_buf, mcs_prev,
                   mcs_tmp, mcs_iter, mcs_calls, mcs_ticket, mcs_entry, mcs_swaps, mcs_entries>>

\* a faulty drop(): the tail is reset with a plain store, whoever it points to
DropStoreNull(t) ==
    /\ MCSFrame
    /\ mcs_pc[t] = "drop_cas"
    /\ mcs_buf[t] = <<>>
    /\ last' = Null
    /\ MCSAfterDrop(t)
    /\ last_rel' = mcs_hb[t]
    /\ UNCHANGED <<locked_rel, mcs_pend>>
    /\ UNCHANGED <<moved, mcs_data, node_next, node_locked, mcs_buf, mcs_prev, mcs_tmp,
                   mcs_swaps, mcs_entries>>

\* if self.mcs_lock.last.compare_exchange(ptr, null_mut(), Release, Relaxed).is_ok() { return; }
DropCas(t) ==
    /\ MCSFrame
    /\ mcs_pc[t] = "drop_cas"
    /\ IF last = DropAddr(t)
       THEN /\ mcs_buf[t] = <<>>
            /\ last' = Null
            /\ last_rel' = mcs_hb[t]
            /\ MCSAfterDrop(t)
       ELSE /\ mcs_pc' = [mcs_pc EXCEPT ![t] = "drop_wait"]
            /\ UNCHANGED <<last, mcs_iter, mcs_calls, mcs_ticket, mcs_entry, last_rel, mcs_hb>>
    /\ UNCHANGED <<locked_rel, mcs_pend>>
    /\ UNCHANGED <<moved, mcs_data, node_next, node_locked, mcs_buf, mcs_prev, mcs_tmp,
                   mcs_swaps, mcs_entries>>

\* while self.pinned_node.pinned.next.load(Relaxed).is_null() { spin_loop() }
DropWait(t) ==
    /\ MCSFrame
    /\ UNCHANGED hbVars
    /\ mcs_pc[t] = "drop_wait"
    /\ LoadNext(t, DropAddr(t)) # Null
    /\ mcs_pc' = [mcs_pc EXCEPT ![t] = "drop_handoff"]
    /\ UNCHANGED <<moved, last, mcs_data, node_next, node_locked, mcs_buf, mcs_prev,
                   mcs_tmp, mcs_iter, mcs_calls, mcs_ticket, mcs_entry, mcs_swaps, mcs_entries>>

\* let next = &mut *self.pinned_node.pinned.next.load(Relaxed);
\* next.locked.store(false, Release);
DropHandoff(t) ==
    /\ MCSFrame
    /\ mcs_pc[t] = "drop_handoff"
    /\ mcs_buf[t] = <<>>
    /\ node_locked' = [node_locked EXCEPT ![node_next[DropAddr(t)]] = FALSE]
    /\ locked_rel' = [locked_rel EXCEPT ![node_next[DropAddr(t)]] = mcs_hb[t]]
    /\ UNCHANGED <<last_rel, mcs_pend>>
    /\ MCSAfterDrop(t)
    /\ UNCHANGED <<moved, last, mcs_data, node_next, mcs_buf, mcs_prev, mcs_tmp,
                   mcs_swaps, mcs_entries>>

MCSThreadStep(t) ==
    \/ LockNew(t)
    \/ LockSwap(t)
    \/ LockSetLocked(t)
    \/ LockEnqueue(t)
    \/ LockSpin(t)
    \/ LockReturn(t)
    \/ CsRead(t)
    \/ CsWrite(t)
    \/ DropLoadNext(t)
    \/ DropCas(t)
    \/ DropWait(t)
    \/ DropHandoff(t)

MCSNext ==
    \/ \E t \in MCSThreads : MCSThreadStep(t)
    \/ \E t \in MCSThreads : Flush(t)

---------------------------------------------------------------------------
(***************************************************************************)
(* LFStack (src/src/lfstack.rs)                                            *)
(*                                                                         *)
(* push and pop are load-exclusive/store-exclusive loops on `head`.  The   *)
(* exclusive monitor is one flag per thread: the load-exclusive sets it, a *)
(* store-exclusive succeeds only with it set, and a successful store to    *)
(* head clears the flag of every thread.  The monitor may also lose the    *)
(* reservation for reasons of its own (an exception return, an eviction):  *)
(* MonitorClear.  The allocator hands out any free address, so the address *)
(* of a freed node comes back.  A load from a freed node is undefined      *)
(* behaviour: it yields any value.                                         *)
(***************************************************************************)
LFThreads == 1 .. NumLFThreads
LFAddrs == 1 .. LFHeap

\* Option::None of pop(); the values pushed are 1, 2, ...
NoValue == 0

LFInit ==
    /\ head = Null
    /\ lf_next = [a \in LFAddrs |-> Null]
    /\ lf_data = [a \in LFAddrs |-> NoValue]
    /\ lf_alloc = {}
    /\ lf_pc = [t \in LFThreads |-> "idle"]
    /\ lf_res = [t \in LFThreads |-> FALSE]
    /\ lf_ptr = [t \in LFThreads |-> Null]
    /\ lf_reg = [t \in LFThreads |-> Null]
    /\ lf_ret = [t \in LFThreads |-> NoValue]
    /\ lf_ops = [t \in LFThreads |-> 0]
    /\ lf_calls = 0
    /\ lf_pushed = EmptyBag
    /\ lf_popped = EmptyBag
    /\ lf_ref = <<>>
    /\ lf_exp = [t \in LFThreads |-> NoValue]
    /\ lf_hit = [t \in LFThreads |-> FALSE]

\* the call returns: its registers are dead
LFReturn(t) ==
    /\ lf_ops' = [lf_ops EXCEPT ![t] = @ + 1]
    /\ lf_pc' = [lf_pc EXCEPT ![t] = IF lf_ops[t] + 1 >= LFOps THEN "done" ELSE "idle"]
    /\ lf_ptr' = [lf_ptr EXCEPT ![t] = Null]
    /\ lf_reg' = [lf_reg EXCEPT ![t] = Null]

\* a faulty monitor: a store to head leaves the reservations of the other
\* threads in place
StoreHeadKeepMonitors(v) ==
    /\ head' = v
    /\ lf_res' = lf_res

\* a successful store-exclusive to head ends every reservation of head
StoreHead(v) ==
    /\ head' = v
    /\ lf_res' = [u \in LFThreads |-> FALSE]

\* the threads between their load-exclusive and their store-exclusive
InExclusive == {u \in LFThreads : lf_pc[u] \in {"push_str", "push_stlxr", "pop_ldr", "pop_stxr"}}

\* the store of thread t to head comes between the load-exclusive and the
\* store-exclusive of the other threads that are there
Intervene(t) ==
    lf_hit' = [u \in LFThreads |-> IF u = t THEN FALSE ELSE lf_hit[u] \/ u \in InExclusive]

\* push(v): let node = Box::new(Node { next: null_mut(), data: v }); Box::into_raw(node)
\* (the k-th call of the workload pushes the value k)
PushAlloc(t) ==
    /\ LFFrame
    /\ UNCHANGED lf_hit
    /\ lf_pc[t] = "idle"
    /\ lf_calls < LFCalls
    /\ \E a \in LFAddrs \ lf_alloc :
          /\ lf_alloc' = lf_alloc \cup {a}
          /\ lf_next' = [lf_next EXCEPT ![a] = Null]
          /\ lf_data' = [lf_data EXCEPT ![a] = lf_calls + 1]
          /\ lf_ptr' = [lf_ptr EXCEPT ![t] = a]
    /\ lf_calls' = lf_calls + 1
    /\ lf_pc' = [lf_pc EXCEPT ![t] = "push_ldxr"]
    /\ lf_ret' = [lf_ret EXCEPT ![t] = NoValue]
    /\ lf_exp' = [lf_exp EXCEPT ![t] = NoValue]
    /\ UNCHANGED <<head, lf_res, lf_reg, lf_ops, lf_pushed, lf_popped, lf_ref>>

\* 1: ldxr {next}, [{head}]
PushLoadLinked(t) ==
    /\ LFFrame
    /\ lf_hit' = [lf_hit EXCEPT ![t] = FALSE]
    /\ lf_pc[t] = "push_ldxr"
    /\ lf_reg' = [lf_reg EXCEPT ![t] = head]
    /\ lf_res' = [lf_res EXCEPT ![t] = TRUE]
    /\ lf_pc' = [lf_pc EXCEPT ![t] = "push_str"]
    /\ UNCHANGED <<head, lf_next, lf_data, lf_alloc, lf_ptr, lf_ret, lf_ops, lf_calls,
                   lf_pushed, lf_popped, lf_ref, lf_exp>>

\* a faulty push(): the new node is not linked to the old head
PushStoreNull(t) ==
    /\ LFFrame
    /\ UNCHANGED lf_hit
    /\ lf_pc[t] = "push_str"
    /\ lf_next' = [lf_next EXCEPT ![lf_ptr[t]] = Null]
    /\ lf_pc' = [lf_pc EXCEPT ![t] = "push_stlxr"]
    /\ UNCHANGED <<head, lf_data, lf_alloc, lf_res, lf_ptr, lf_reg, lf_ret, lf_ops, lf_calls,
                   lf_pushed, lf_popped, lf_ref, lf_exp>>

\* str {next}, [{ptr}]
PushStoreNext(t) ==
    /\ LFFrame
    /\ UNCHANGED lf_hit
    /\ lf_pc[t] = "push_str"
    /\ lf_next' = [lf_next EXCEPT ![lf_ptr[t]] = lf_reg[t]]
    /\ lf_pc' = [lf_pc EXCEPT ![t] = "push_stlxr"]
    /\ UNCHANGED <<head, lf_data, lf_alloc, lf_res, lf_ptr, lf_reg, lf_ret, lf_ops, lf_calls,
                   lf_pushed, lf_popped, lf_ref, lf_exp>>

\* stlxr w10, {ptr}, [{head}]; cbnz w10, 1b
PushStoreConditional(t) ==
    /\ LFFrame
    /\ lf_pc[t] = "push_stlxr"
    /\ IF lf_res[t]
       THEN /\ StoreHead(lf_ptr[t])
            /\ Intervene(t)
            /\ lf_pushed' = lf_pushed (+) SetToBag({lf_data[lf_ptr[t]]})
            /\ lf_ref' = <<lf_data[lf_ptr[t]]>> \o lf_ref
            /\ LFReturn(t)
       ELSE /\ lf_pc' = [lf_pc EXCEPT ![t] = "push_ldxr"]
            /\ UNCHANGED <<head, lf_res, lf_ptr, lf_reg, lf_ops, lf_pushed, lf_ref, lf_hit>>
    /\ UNCHANGED <<lf_next, lf_data, lf_alloc, lf_ret, lf_calls, lf_popped, lf_exp>>

\* pop() is called
PopCall(t) ==
    /\ LFFrame
    /\ UNCHANGED lf_hit
    /\ lf_pc[t] = "idle"
    /\ lf_calls < LFCalls
    /\ lf_calls' = lf_calls + 1
    /\ lf_pc' = [lf_pc EXCEPT ![t] = "pop_ldaxr"]
    /\ lf_ret' = [lf_ret EXCEPT ![t] = NoValue]
    /\ lf_exp' = [lf_exp EXCEPT ![t] = NoValue]
    /\ UNCHANGED <<head, lf_next, lf_data, lf_alloc, lf_res, lf_ptr, lf_reg, lf_ops,
                   lf_pushed, lf_popped, lf_ref>>

\* 1: ldaxr {result}, [{head}]; cbnz {result}, 2f; clrex; b 3f;   3: None
PopLoadLinked(t) ==
    /\ LFFrame
    /\ lf_hit' = [lf_hit EXCEPT ![t] = FALSE]
    /\ lf_pc[t] = "pop_ldaxr"
    /\ IF head = Null
       THEN /\ lf_res' = [lf_res EXCEPT ![t] = FALSE]
            /\ lf_ret' = [lf_ret EXCEPT ![t] = NoValue]
            /\ lf_exp' = [lf_exp EXCEPT ![t] = IF lf_ref = <<>> THEN NoValue ELSE Head(lf_ref)]
            /\ LFReturn(t)
       ELSE /\ lf_res' = [lf_res EXCEPT ![t] = TRUE]
            /\ lf_ptr' = [lf_ptr EXCEPT ![t] = head]
            /\ lf_pc' = [lf_pc EXCEPT ![t] = "pop_ldr"]
            /\ UNCHANGED <<lf_reg, lf_ret, lf_exp, lf_ops>>
    /\ UNCHANGED <<head, lf_next, lf_data, lf_alloc, lf_calls, lf_pushed, lf_popped, lf_ref>>

\* 2: ldr {next}, [{result}]
PopLoadNext(t) ==
    /\ LFFrame
    /\ UNCHANGED lf_hit
    /\ lf_pc[t] = "pop_ldr"
    /\ \E v \in LFAddrs \cup {Null} :
          /\ lf_ptr[t] \in lf_alloc => v = lf_next[lf_ptr[t]]
          /\ lf_reg' = [lf_reg EXCEPT ![t] = v]
    /\ lf_pc' = [lf_pc EXCEPT ![t] = "pop_stxr"]
    /\ UNCHANGED <<head, lf_next, lf_data, lf_alloc, lf_res, lf_ptr, lf_ret, lf_ops, lf_calls,
                   lf_pushed, lf_popped, lf_ref, lf_exp>>

\* a faulty pop(): a plain store to head in place of the store-exclusive
PopStorePlain(t) ==
    /\ LFFrame
    /\ lf_pc[t] = "pop_stxr"
    /\ StoreHead(lf_reg[t])
    /\ Intervene(t)
    /\ lf_exp' = [lf_exp EXCEPT ![t] = IF lf_ref = <<>> THEN NoValue ELSE Head(lf_ref)]
    /\ lf_ref' = IF lf_ref = <<>> THEN <<>> ELSE Tail(lf_ref)
    /\ lf_pc' = [lf_pc EXCEPT ![t] = "pop_free"]
    /\ UNCHANGED <<lf_next, lf_data, lf_alloc, lf_ptr, lf_reg, lf_ret, lf_ops, lf_calls,
                   lf_pushed, lf_popped>>

\* stxr w10, {next}, [{head}]; cbnz w10, 1b
PopStoreConditional(t) ==
    /\ LFFrame
    /\ lf_pc[t] = "pop_stxr"
    /\ IF lf_res[t]
       THEN /\ StoreHead(lf_reg[t])
            /\ Intervene(t)
            /\ lf_exp' = [lf_exp EXCEPT ![t] = IF lf_ref = <<>> THEN NoValue ELSE Head(lf_ref)]
            /\ lf_ref' = IF lf_ref = <<>> THEN <<>> ELSE Tail(lf_ref)
            /\ lf_pc' = [lf_pc EXCEPT ![t] = "pop_free"]
       ELSE /\ lf_pc' = [lf_pc EXCEPT ![t] = "pop_ldaxr"]
            /\ UNCHANGED <<head, lf_res, lf_exp, lf_ref, lf_hit>>
    /\ UNCHANGED <<lf_next, lf_data, lf_alloc, lf_ptr, lf_reg, lf_ret, lf_ops, lf_calls,
                   lf_pushed, lf_popped>>

\* let head = Box::from_raw(ptr); Some((*head).data)     (the node is freed)
PopFree(t) ==
    /\ LFFrame
    /\ UNCHANGED lf_hit
    /\ lf_pc[t] = "pop_free"
    /\ lf_ret' = [lf_ret EXCEPT ![t] = lf_data[lf_ptr[t]]]
    /\ lf_popped' = lf_popped (+) SetToBag({lf_data[lf_ptr[t]]})
    /\ lf_alloc' = lf_alloc \ {lf_ptr[t]}
    /\ LFReturn(t)
    /\ UNCHANGED <<head, lf_next, lf_data, lf_res, lf_calls, lf_pushed, lf_ref, lf_exp>>

\* the exclusive monitor drops the thread's reservation
MonitorClear(t) ==
    /\ LFFrame
    /\ UNCHANGED lf_hit
    /\ lf_res[t]
    /\ lf_res' = [lf_res EXCEPT ![t] = FALSE]
    /\ UNCHANGED <<head, lf_next, lf_data, lf_alloc, lf_pc, lf_ptr, lf_reg, lf_ret, lf_ops,
                   lf_calls, lf_pushed, lf_popped, lf_ref, lf_exp>>

\* the thread has made its calls, or the workload's calls are used up
LFFinish(t) ==
    /\ LFFrame
    /\ UNCHANGED lf_hit
    /\ lf_pc[t] = "idle"
    /\ lf_calls >= LFCalls
    /\ lf_pc' = [lf_pc EXCEPT ![t] = "done"]
    /\ UNCHANGED <<head, lf_next, lf_data, lf_alloc, lf_res, lf_ptr, lf_reg, lf_ret, lf_ops,
                   lf_calls, lf_pushed, lf_popped, lf_ref, lf_exp>>

LFThreadStep(t) ==
    \/ PushAlloc(t)
    \/ PushLoadLinked(t)
    \/ PushStoreNext(t)
    \/ PushStoreConditional(t)
    \/ PopCall(t)
    \/ PopLoadLinked(t)
    \/ PopLoadNext(t)
    \/ PopStoreConditional(t)
    \/ PopFree(t)
    \/ LFFinish(t)

LFNext ==
    \/ \E t \in LFThreads : LFThreadStep(t)
    \/ \E t \in LFThreads : MonitorClear(t)

---------------------------------------------------------------------------
vars == <<rwVars, mcsVars, lfVars>>

\* the RwLock workload: NumReaders readers and NumWriters writers (lib.rs test_rwlock)
InitRw == RwInit /\ MCSInit /\ LFInit /\ moved = FALSE

SpecRw == InitRw /\ [][RwNext]_vars

\* every thread that can take a step eventually takes one (parallel threads)
FairSpecRw == SpecRw /\ \A t \in RwThreads : WF_vars(RwReaderStep(t) \/ RwWriterStep(t))

\* the MCSLock workload: NumMCSThreads threads (lib.rs test_mcs)
InitMCS == RwInit /\ MCSInit /\ LFInit

SpecMCS == InitMCS /\ [][MCSNext]_vars

\* the LFStack workload: NumLFThreads threads pushing and popping (lib.rs test_lfstack)
InitLF == RwInit /\ MCSInit /\ LFInit /\ moved = FALSE

SpecLF == InitLF /\ [][LFNext]_vars

---------------------------------------------------------------------------
(***************************************************************************)
(* Properties of RwLock                                                    *)
(***************************************************************************)
\* the threads that hold a read guard / a write guard
ReadGuards == {t \in RwReaders : rw_pc[t] \in {"r_read", "r_drop"}}
WriteGuards == {t \in RwWriters : rw_pc[t] \in {"w_inc", "w_dec", "w_drop"}}

\* the writers inside a call of write()
WritersCalling ==
    {t \in RwWriters : rw_pc[t] \in {"w_cas_acq", "w_cas_bit", "w_sample", "w_reload",
                                     "w_spin", "w_respin_load"}}

RwAllDone == \A t \in RwThreads : rw_pc[t] = "done"

\* C2: a write guard never coexists with a read guard nor with another write
\* guard, and every read of the payload under a read guard observes 0
C2_Exclusion ==
    /\ Cardinality(WriteGuards) <= 1
    /\ WriteGuards # {} => ReadGuards = {}
    /\ \A r \in RwReaders : rw_obs[r] \subseteq {0}

\* a writer is in the middle of its write (the payload is 1) while a reader and
\* another writer are kept out
C2_Witness ==
    /\ \E w \in RwWriters : rw_pc[w] = "w_dec"
    /\ \E w \in RwWriters : rw_pc[w] = "w_spin"
    /\ \E r \in RwReaders : rw_pc[r] = "r_spin"
    /\ rw_data = 1

\* C3: under fair scheduling every call of write() eventually returns a write guard
C3_WriterProgress ==
    \A w \in RwWriters : (w \in WritersCalling) ~> (rw_pc[w] = "w_inc")

\* C4: a finite workload ends with every thread finished and state == 0: a
\* state in which no thread can take a step is such a state
C4_Termination == ENABLED RwNext \/ (RwAllDone /\ state = 0)

\* C9: while the writer-waiting bit is set (state odd, not the sentinel) the
\* state only loses readers (state - 2) or, from 1, goes to the sentinel; and a
\* read guard is only ever obtained by a step from an even state s to s + 2
C9_WriterPreference ==
    [][ /\ (state % 2 = 1 /\ state # UsizeMax) =>
              \/ state' = state
              \/ state >= 3 /\ state' = state - 2
              \/ state = 1 /\ state' = UsizeMax
        /\ \A r \in RwReaders :
              (rw_pc[r] # "r_read" /\ rw_pc'[r] = "r_read") =>
                  (state % 2 = 0 /\ state' = state + 2) ]_vars

\* a reader is held back by the waiting bit while another reader holds its guard
C9_Witness ==
    /\ state = 3
    /\ \E r \in RwReaders : rw_pc[r] = "r_spin" /\ rw_s[r] = 3
    /\ ReadGuards # {}

---------------------------------------------------------------------------
(***************************************************************************)
(* Properties of MCSLock                                                   *)
(***************************************************************************)
\* the threads that hold the lock: from the moment lock() is through (the swap
\* found the tail null, or the spin saw `locked` cleared) to the release in drop()
MCSHolders ==
    {t \in MCSThreads : mcs_pc[t] \in {"lock_return", "cs_read", "cs_write", "drop_load",
                                        "drop_cas", "drop_wait", "drop_handoff"}}

\* the threads that have swapped and wait for the lock
MCSWaiters ==
    {t \in MCSThreads : mcs_pc[t] \in {"lock_set_locked", "lock_enqueue", "lock_spin"}}

MCSAllDone == \A t \in MCSThreads : mcs_pc[t] = "done"

\* the lock() calls of the workload
MCSTotal ==
    IF MCSCalls < NumMCSThreads * MCSIters THEN MCSCalls ELSE NumMCSThreads * MCSIters

\* C1: at most one thread holds the lock
C1_MutualExclusion == Cardinality(MCSHolders) <= 1

\* a thread that queued behind another is in its critical section
C1_Witness ==
    \E t \in MCSThreads : mcs_pc[t] = "cs_write" /\ mcs_prev[t] # Null /\ mcs_data >= 1

\* C5: the workload ends (a state in which no thread can take a step has every
\* thread finished) and the payload then equals the number of lock() calls
C5_Completion == ENABLED MCSNext \/ (MCSAllDone /\ mcs_data = MCSTotal)

\* C8: threads become holder in the order of their swaps: the k-th thread to
\* enter is the thread of the k-th swap
C8_Fifo == \A t \in MCSThreads : mcs_entry[t] # 0 => mcs_entry[t] = mcs_ticket[t]

\* the third swap of the run came from a thread that had to queue, and it is in
\* the critical section
C8_Witness ==
    \E t \in MCSThreads :
        mcs_pc[t] = "cs_read" /\ mcs_ticket[t] = 3 /\ mcs_entry[t] = 3 /\ mcs_prev[t] # Null

\* where the node of a queued thread is: in the frame of lock() until lock()
\* has returned, in the caller's guard from then on
NodeAddr(t) ==
    IF mcs_pc[t] \in {"cs_read", "cs_write", "drop_load", "drop_cas", "drop_wait", "drop_handoff"}
    THEN DropAddr(t)
    ELSE PubAddr(t)

\* the threads between their swap and their release
MCSQueued == MCSHolders \cup MCSWaiters

\* the queued thread of the latest swap
LastSwapper == CHOOSE t \in MCSQueued : \A u \in MCSQueued : mcs_ticket[u] <= mcs_ticket[t]

\* the node at which the chain of next links from the node at a ends
RECURSIVE ChainEnd(_, _)
ChainEnd(a, n) ==
    IF n = 0 \/ node_next[a] = Null THEN a ELSE ChainEnd(node_next[a], n - 1)

\* every waiter has stored its link into its predecessor's node, and the
\* stores have reached memory
LinksSettled ==
    /\ \A t \in MCSThreads : mcs_pc[t] \notin {"lock_set_locked", "lock_enqueue"}
    /\ \A t \in MCSThreads : mcs_buf[t] = <<>>

\* C10: the tail is null exactly when no thread holds or waits; otherwise it
\* points to the node of the thread of the latest swap; and, the waiters'
\* links stored, the chain of next links from the holder's node ends at the
\* node the tail points to
C10_TailInvariant ==
    /\ last = Null <=> MCSQueued = {}
    /\ MCSQueued # {} => last = NodeAddr(LastSwapper)
    /\ \A h \in MCSHolders :
          LinksSettled => ChainEnd(NodeAddr(h), 2 * NumMCSThreads) = last

---------------------------------------------------------------------------
(***************************************************************************)
(* Properties of LFStack                                                   *)
(***************************************************************************)
\* the values of the nodes linked from the address a, top first (n bounds the walk)
RECURSIVE LFChain(_, _)
LFChain(a, n) ==
    IF a = Null \/ n = 0 THEN <<>> ELSE <<lf_data[a]>> \o LFChain(lf_next[a], n - 1)

RECURSIVE SeqToBag(_)
SeqToBag(q) == IF q = <<>> THEN EmptyBag ELSE SetToBag({Head(q)}) (+) SeqToBag(Tail(q))

\* the values of the nodes linked in the stack
LFLinked == LFChain(head, LFHeap + 1)

\* the values of the nodes a pop has unlinked and not yet returned
RECURSIVE LFInFlight(_)
LFInFlight(T) ==
    IF T = {} THEN EmptyBag
    ELSE LET t == CHOOSE u \in T : TRUE
         IN  (IF lf_pc[t] = "pop_free" THEN SetToBag({lf_data[lf_ptr[t]]}) ELSE EmptyBag)
             (+) LFInFlight(T \ {t})

\* C6: the values popped (returned, or unlinked and about to be returned) and
\* the values linked in the stack are together the values pushed, each once;
\* with as many pops as pushes the head is null
C6_NoDataLoss ==
    LET out == lf_popped (+) LFInFlight(LFThreads)
    IN  /\ out (+) SeqToBag(LFLinked) = lf_pushed
        /\ \A v \in BagToSet(lf_pushed) : CopiesIn(v, lf_pushed) = 1
        /\ BagCardinality(out) = BagCardinality(lf_pushed) => head = Null

\* two values were pushed, one of them has been popped, the other is linked
C6_Witness ==
    /\ BagCardinality(lf_pushed) = 2
    /\ BagCardinality(lf_popped) = 1
    /\ Len(LFLinked) = 1
    /\ \A t \in LFThreads : lf_pc[t] \in {"idle", "done"}

\* C7: a pop returns what the reference stack returns (its top, or None when
\* it is empty), and the nodes linked from head are the reference stack
C7_Lifo ==
    /\ \A t \in LFThreads : lf_pc[t] # "pop_free" => lf_ret[t] = lf_exp[t]
    /\ LFLinked = lf_ref

\* the values 1 and 2 were pushed in this order and a pop has returned 2
C7_Witness ==
    /\ \E t \in LFThreads : lf_pc[t] \in {"idle", "done"} /\ lf_ret[t] = 2
    /\ lf_ref = <<1>>

---------------------------------------------------------------------------
(***************************************************************************)
(* Further properties of RwLock                                            *)
(***************************************************************************)
\* C11: state is the sentinel exactly when one write guard is live, and then
\* no read guard is live; otherwise state is 2r or 2r + 1 with r the number
\* of live read guards
C11_StateEncoding ==
    /\ state = UsizeMax <=> Cardinality(WriteGuards) = 1
    /\ state = UsizeMax => ReadGuards = {}
    /\ state # UsizeMax =>
          /\ WriteGuards = {}
          /\ state \in {2 * Cardinality(ReadGuards), 2 * Cardinality(ReadGuards) + 1}

\* two read guards are live and a writer has set the waiting bit
C11_Witness == state = 5 /\ Cardinality(ReadGuards) = 2 /\ WritersCalling # {}

\* a release has changed state and is about to increment writer_wake_counter
BumpPending == \E t \in RwThreads : rw_pc[t] \in {"r_bump", "w_bump"}

\* C15: while a writer spins on writer_wake_counter and the counter still has
\* the value it sampled, state is odd (the waiting bit is set, or a writer
\* holds the sentinel), or the release that frees the lock is about to
\* increment the counter
C15_NoMissedWake ==
    \A w \in RwWriters :
        (rw_pc[w] = "w_spin" /\ writer_wake_counter = rw_w[w]) =>
            (state % 2 = 1 \/ BumpPending)

\* the threads that are about to add 1 to writer_wake_counter
Bumping == {t \in RwThreads : rw_pc[t] \in {"r_bump", "w_bump"}}

\* C19: the drop of a read guard takes exactly 2 from state and leaves the
\* writer-waiting bit as it was; it goes on to add exactly 1 to
\* writer_wake_counter if and only if state was 3 before the subtraction, and
\* otherwise leaves writer_wake_counter alone
C19_ReaderRelease ==
    [][ \A t \in RwReaders :
          /\ (rw_pc[t] = "r_drop" /\ rw_pc'[t] # "r_drop") =>
                 /\ state >= 2
                 /\ state' = state - 2
                 /\ state' % 2 = state % 2
                 /\ writer_wake_counter' = writer_wake_counter
                 /\ (rw_pc'[t] = "r_bump") <=> (state = 3)
          /\ (rw_pc[t] = "r_bump" /\ rw_pc'[t] # "r_bump") =>
                 /\ writer_wake_counter' = WrapAdd(writer_wake_counter, 1)
                 /\ state' = state
          /\ (rw_pc[t] # "r_bump" /\ rw_pc'[t] = "r_bump") => rw_pc[t] = "r_drop" ]_vars

\* the last reader has left while a writer waits: state went from 3 to 1 and
\* the reader is about to wake the writer that spins
C19_Witness ==
    \E t \in RwReaders : \E w \in RwWriters :
        rw_pc[t] = "r_bump" /\ state = 1 /\ rw_pc[w] = "w_spin"

\* C20: the sentinel is installed by a writer's compare-exchange from 0 or 1;
\* while state is the sentinel no thread changes it but the holder, whose
\* store of 0 is the only way out and is followed by exactly one increment of
\* writer_wake_counter, by that writer
C20_WriterHold ==
    [][ /\ (state' = UsizeMax /\ state # UsizeMax) =>
               /\ state \in {0, 1}
               /\ \E w \in RwWriters : rw_pc[w] = "w_cas_acq" /\ rw_pc'[w] = "w_inc"
        /\ (state = UsizeMax /\ state' # UsizeMax) =>
               /\ state' = 0
               /\ \E w \in WriteGuards : rw_pc[w] = "w_drop" /\ rw_pc'[w] = "w_bump"
        /\ \A w \in RwWriters :
               /\ (rw_pc[w] \in {"w_inc", "w_dec", "w_drop"} /\ rw_pc'[w] # "w_bump") =>
                      state = UsizeMax /\ state' = UsizeMax
               /\ (rw_pc[w] = "w_bump" /\ rw_pc'[w] # "w_bump") =>
                      writer_wake_counter' = WrapAdd(writer_wake_counter, 1)
               /\ (rw_pc[w] # "w_bump" /\ rw_pc'[w] = "w_bump") => rw_pc[w] = "w_drop"
        /\ writer_wake_counter' # writer_wake_counter =>
               \E t \in Bumping : rw_pc'[t] # rw_pc[t] ]_vars

\* a writer holds the lock at the end of its write while a reader is inside
\* read() and the other writer inside write()
C20_Witness ==
    /\ state = UsizeMax
    /\ \E w \in RwWriters : rw_pc[w] = "w_drop"
    /\ \E r \in RwReaders : rw_pc[r] \in {"r_cas", "r_spin", "r_reload"}
    /\ WritersCalling # {}

---------------------------------------------------------------------------
(***************************************************************************)
(* Further properties of MCSLock                                           *)
(***************************************************************************)
\* C12: from its swap to its release, the node of a thread is at the address
\* the thread published in lock(): the address drop() compares with the tail
\* and polls is that address
C12_NodeStability == \A t \in MCSQueued : NodeAddr(t) = PubAddr(t)

\* the critical sections before its own happen before the accesses of thread t
KnowsEarlier(t) == mcs_hb[t] + 1 >= mcs_entry[t]

C16_ReleaseWithoutSuccessor ==
    [][ \A t \in MCSThreads :
          (mcs_pc[t] = "drop_cas" /\ last = PubAddr(t) /\ mcs_pc'[t] # "drop_cas") =>
              /\ last' = Null
              /\ mcs_pc'[t] \in {"lock_new", "done"}
              /\ node_locked' = node_locked ]_vars

\* thread u swapped right after thread t
Successor(t, u) == mcs_ticket[t] # 0 /\ mcs_ticket[u] = mcs_ticket[t] + 1

\* thread u waits and the thread that swapped right before it has released
HeadWaiter(u) ==
    /\ mcs_pc[u] = "lock_spin"
    /\ \A t \in MCSThreads : ~Successor(t, u)

\* the wait of a drop can end once its successor's link is stored, and the
\* spin of a waiter can end once its predecessor has released
HandoffArrives ==
    /\ \A t, u \in MCSThreads :
          (mcs_pc[t] = "drop_wait" /\ mcs_pc[u] = "lock_spin" /\ Successor(t, u)
           /\ LinksSettled) => node_next[NodeAddr(t)] = PubAddr(u)
    /\ \A u \in MCSThreads :
          (HeadWaiter(u) /\ LinksSettled) => node_locked[PubAddr(u)] = FALSE

\* C17: a drop whose compare-exchange failed waits for its successor's link,
\* which arrives, then clears `locked` of that successor's node and of no
\* other, and the successor leaves its spin
C17_HandoffRace ==
    [][ /\ HandoffArrives'
        /\ \A t \in MCSThreads :
              (mcs_pc[t] = "drop_handoff" /\ mcs_pc'[t] # "drop_handoff") =>
                  \E u \in MCSThreads :
                      /\ Successor(t, u)
                      /\ node_locked' = [node_locked EXCEPT ![PubAddr(u)] = FALSE] ]_vars

\* the node thread t is about to publish is initialised, for every thread:
\* next is null and locked is true (waiting), in memory
NodeReady(t) ==
    /\ \A k \in 1 .. Len(mcs_buf[t]) : mcs_buf[t][k].addr # PubAddr(t)
    /\ node_next[PubAddr(t)] = Null
    /\ node_locked[PubAddr(t)] = TRUE

\* C18: when lock() exchanges the address of its node into the tail the node
\* already has next == null and locked == true; a hand-off store of false is
\* not overwritten by the waiter's own stores; and a waiter leaves its spin
\* only when no thread holds the lock
C18_InitOrder ==
    [][ \A t \in MCSThreads :
          /\ (mcs_pc[t] = "lock_swap" /\ mcs_pc'[t] # "lock_swap") => NodeReady(t)
          /\ (HeadWaiter(t) /\ node_locked[PubAddr(t)] = FALSE /\ mcs_pc'[t] = "lock_spin") =>
                 node_locked'[PubAddr(t)] = FALSE
          /\ (mcs_pc[t] = "lock_spin" /\ mcs_pc'[t] = "lock_return") => MCSHolders = {} ]_vars

---------------------------------------------------------------------------
(***************************************************************************)
(* Further properties of LFStack                                           *)
(***************************************************************************)
\* C13: a push or pop goes round its loop again only when another thread's
\* store to head came between its load-exclusive and its store-exclusive (so
\* a thread that runs without interference completes in one attempt)
C13_RetryOnlyOnInterference ==
    [][ \A t \in LFThreads :
          (/\ lf_pc[t] \in {"push_stlxr", "pop_stxr"}
           /\ lf_pc'[t] \in {"push_ldxr", "pop_ldaxr"}) => lf_hit[t] ]_vars
\* the addresses of the nodes linked from the address a, top first (n bounds the walk)
RECURSIVE LFChainAddrs(_, _)
LFChainAddrs(a, n) ==
    IF a = Null \/ n = 0 THEN <<>> ELSE <<a>> \o LFChainAddrs(lf_next[a], n - 1)

\* the nodes linked in the stack
LFNodes == LFChainAddrs(head, LFHeap + 1)

\* the nodes a push has allocated and not yet stored to head
LFUnpublished == {lf_ptr[t] : t \in {u \in LFThreads : lf_pc[u] \in {"push_ldxr", "push_str", "push_stlxr"}}}

\* the threads whose pop has taken a node from head and not yet freed it
LFUnlinking == {t \in LFThreads : lf_pc[t] = "pop_free"}

\* C21: a pop whose store-exclusive can succeed holds the node that is at head
\* and the current next of that node, head not having been written since its
\* load-exclusive; the chain from head is acyclic and holds only nodes that
\* were pushed and not popped; no node is taken by two pops nor freed twice
C21_ChainIntegrity ==
    /\ \A t \in LFThreads :
          (lf_pc[t] = "pop_stxr" /\ lf_res[t]) =>
              /\ ~lf_hit[t]
              /\ lf_ptr[t] = head
              /\ lf_ptr[t] \in lf_alloc
              /\ lf_reg[t] = lf_next[head]
    /\ Len(LFNodes) <= LFHeap
    /\ \A i, j \in 1 .. Len(LFNodes) : LFNodes[i] = LFNodes[j] => i = j
    /\ \A i \in 1 .. Len(LFNodes) :
          /\ LFNodes[i] \in lf_alloc
          /\ LFNodes[i] \notin LFUnpublished
          /\ \A t \in LFUnlinking : LFNodes[i] # lf_ptr[t]
          /\ BagIn(lf_data[LFNodes[i]], lf_pushed)
          /\ ~BagIn(lf_data[LFNodes[i]], lf_popped)
    /\ \A t \in LFUnlinking :
          /\ lf_ptr[t] \in lf_alloc
          /\ \A u \in LFUnlinking : lf_ptr[u] = lf_ptr[t] => u = t
    /\ \A v \in BagToSet(lf_popped) : CopiesIn(v, lf_popped) = 1

\* a pop is between its load-exclusive and its store-exclusive, head has been
\* written since and holds the address the pop loaded again: the only node
\* linked carries the value of the last call of the workload, pushed after
\* another pop returned an earlier value, so the node the pop loaded was
\* popped and freed and its address handed out again; the reservation is lost
C21_Witness ==
    \E t \in LFThreads :
        /\ lf_pc[t] = "pop_stxr"
        /\ lf_hit[t]
        /\ ~lf_res[t]
        /\ head = lf_ptr[t]
        /\ Len(LFNodes) = 1
        /\ lf_data[head] = LFCalls
        /\ BagCardinality(lf_pushed) = 2
        /\ BagCardinality(lf_popped) = 1
\* C22: when a pop reads the next field of the node it loaded from head, the
\* node has not been freed
C22_NoUseAfterFree ==
    [][ \A t \in LFThreads :
          (lf_pc[t] = "pop_ldr" /\ lf_pc'[t] = "pop_stxr") => lf_ptr[t] \in lf_alloc ]_vars

====
